---- MODULE Spec2Model ----
(***************************************************************************)
(* Module initialisation of the connection bootstrap files of              *)
(* mas_migration: the three variants of cdbConnection.jsx (a PouchDB       *)
(* handle on the remote database "transaction") and the axios client.      *)
(*                                                                         *)
(* One behaviour is one load of one module.  Strings that the code takes   *)
(* apart or puts together are sequences of one-character strings, so that  *)
(* the regular-expression replace and the template literal are computed    *)
(* and not assumed.                                                        *)
(***************************************************************************)
EXTENDS Integers, Sequences, FiniteSets, TLC

VARIABLES
    variant,      \* which source file is being loaded
    env,          \* process.env.COUCHDB_URL
    pc,           \* position of the module's top-level evaluation
    couchdbUrl,   \* const couchdbUrl
    db,           \* const db
    api,          \* const api
    exported,     \* the module's default export
    probe,        \* state of the promise returned by db.info()
    console,      \* what was written to the console, in order
    thrown,       \* the exception that ended the module load, if any
    constructed,  \* number of client constructor calls so far
    probes        \* number of db.info() calls so far

vars == <<variant, env, pc, couchdbUrl, db, api, exported, probe, console,
          thrown, constructed, probes>>

-----------------------------------------------------------------------------
(* Bounds of the input space *)

MaxBodyLen == 3

(* The four source files *)
FailFast   == "cdbConnection.jsx"
Plain      == "part_000"
HardCoded  == "part_001"
ApiClient  == "part_002"

Variants   == {FailFast, Plain, HardCoded, ApiClient}
Probing    == {FailFast, HardCoded}

-----------------------------------------------------------------------------
(* JavaScript values *)

Undefined == [type |-> "undefined"]
Str(s)    == [type |-> "string", val |-> s]
IsStr(v)  == v.type = "string"

NoHandle  == [kind |-> "none"]

HttpScheme  == <<"h", "t", "t", "p", ":", "/", "/">>
HttpsScheme == <<"h", "t", "t", "p", "s", ":", "/", "/">>

dbName == <<"t", "r", "a", "n", "s", "a", "c", "t", "i", "o", "n">>

CouchdbLiteral ==
    <<"h", "t", "t", "p", ":", "/", "/">> \o
    <<"c", "o", "u", "c", "h", "d", "b", "-", "r", "o", "u", "t", "e", "-",
      "o", "p", "e", "n", "-", "d", "b">> \o
    <<".", "a", "p", "p", "s">> \o
    <<".", "i", "t", "z", "-", "4", "7", "u", "b", "p", "b">> \o
    <<".", "i", "n", "f", "r", "a", "0", "1", "-", "l", "b">> \o
    <<".", "d", "a", "l", "1", "4">> \o
    <<".", "t", "e", "c", "h", "z", "o", "n", "e">> \o
    <<".", "i", "b", "m">> \o
    <<".", "c", "o", "m">>

API_BASE_URL ==
    "https://backend-open-db.apps.itz-47ubpb.infra01-lb.dal14.techzone.ibm.com"

TIMEOUT == 30000

-----------------------------------------------------------------------------
(* The values COUCHDB_URL can have: unset, or a string made of an optional *)
(* scheme and a body over a small alphabet, or the documented example.     *)

BodyChars == {"a", ".", "/"}

RECURSIVE SeqsUpTo(_)
SeqsUpTo(n) ==
    IF n = 0 THEN {<<>>}
    ELSE LET shorter == SeqsUpTo(n - 1)
         IN  shorter \cup {Append(s, c) : s \in shorter, c \in BodyChars}

Schemes == {<<>>, HttpScheme, HttpsScheme}

ExampleUrl == HttpScheme \o <<"e", "x", "a", "m", "p", "l", "e", ".", "c", "o", "m", "/">>

UrlStrings == {sch \o b : sch \in Schemes, b \in SeqsUpTo(MaxBodyLen)}
                  \cup {ExampleUrl}

EnvValues == {Undefined} \cup {Str(s) : s \in UrlStrings}

-----------------------------------------------------------------------------
(* Pure functions of the language and of the modules *)

\* ToBoolean: undefined and the empty string are falsy.
Falsy(v) == v.type = "undefined" \/ (v.type = "string" /\ v.val = <<>>)

\* The places where the regular expression /\/$/ matches in s: a "/" that
\* is followed by the end of the input.
SlashAtEndMatches(s) == {i \in 1..Len(s) : s[i] = "/" /\ i + 1 = Len(s) + 1}

\* Variant: the pattern /\/+$/, which takes every trailing "/".
RECURSIVE ReplaceTrailingSlash_Greedy(_)
ReplaceTrailingSlash_Greedy(s) ==
    IF Len(s) > 0 /\ s[Len(s)] = "/"
    THEN ReplaceTrailingSlash_Greedy(SubSeq(s, 1, Len(s) - 1))
    ELSE s

\* s.replace(/\/$/, ''): the first match, if there is one, is cut out.
ReplaceTrailingSlash(s) ==
    LET m == SlashAtEndMatches(s)
    IN  IF m = {} THEN s
        ELSE LET i == CHOOSE k \in m : \A j \in m : k <= j
             IN  SubSeq(s, 1, i - 1) \o SubSeq(s, i + 1, Len(s))

\* The template literal `https://${couchdbUrl.replace(/\/$/, '')}/${dbName}`.
EndpointOf(url) ==
    HttpsScheme \o ReplaceTrailingSlash(url) \o <<"/">> \o dbName

\* Variant: the flag written the other way round.
PouchOptions_SkipSetup == [skip_setup |-> TRUE]

\* The options object given to new PouchDB.
PouchOptions == [skip_setup |-> FALSE]

\* new PouchDB(name, options)
NewPouchDB(name, options) == [kind |-> "PouchDB", name |-> name, opts |-> options]

\* Variant: a timeout of three seconds.
ApiConfig_ShortTimeout ==
    [baseURL |-> API_BASE_URL,
     timeout |-> 3000,
     headers |-> [ct \in {"Content-Type"} |-> "application/json"]]

\* The configuration object given to axios.create.
ApiConfig ==
    [baseURL |-> API_BASE_URL,
     timeout |-> TIMEOUT,
     headers |-> [ct \in {"Content-Type"} |-> "application/json"]]

\* axios.create(config)
AxiosCreate(config) == [kind |-> "axios", config |-> config]

\* part_000 line 7 holds `${couchdbUrl)}`: the substitution is closed by ")"
\* before "}", which no JavaScript parser accepts.
Parses(v) == v # Plain

-----------------------------------------------------------------------------
Init ==
    /\ variant \in Variants
    /\ env \in EnvValues
    /\ pc = "parse"
    /\ couchdbUrl = Undefined
    /\ db = NoHandle
    /\ api = NoHandle
    /\ exported = NoHandle
    /\ probe = "none"
    /\ console = <<>>
    /\ thrown = "none"
    /\ constructed = 0
    /\ probes = 0

\* The module source is parsed before any of it is evaluated.
Parse ==
    /\ pc = "parse"
    /\ IF Parses(variant)
       THEN /\ pc' = IF variant = ApiClient THEN "create" ELSE "read"
            /\ UNCHANGED thrown
       ELSE /\ pc' = "threw"
            /\ thrown' = "SyntaxError"
    /\ UNCHANGED <<variant, env, couchdbUrl, db, api, exported, probe, console,
                   constructed, probes>>

\* const couchdbUrl = ... ; const dbName = "transaction";
ReadConfig ==
    /\ pc = "read"
    /\ variant \in Probing
    /\ couchdbUrl' = IF variant = HardCoded THEN Str(CouchdbLiteral) ELSE env
    /\ pc' = IF variant = FailFast THEN "check" ELSE "construct"
    /\ UNCHANGED <<variant, env, db, api, exported, probe, console, thrown,
                   constructed, probes>>

\* Variant: the check commented out, as in part_001.
CheckUrl_Disabled ==
    /\ pc = "check"
    /\ pc' = "construct"
    /\ UNCHANGED <<variant, env, couchdbUrl, db, api, exported, probe, console,
                   thrown, constructed, probes>>

\* if (!couchdbUrl) { throw new Error(...) }
CheckUrl ==
    /\ pc = "check"
    /\ IF Falsy(couchdbUrl)
       THEN /\ pc' = "threw"
            /\ thrown' = "Error"
       ELSE /\ pc' = "construct"
            /\ UNCHANGED thrown
    /\ UNCHANGED <<variant, env, couchdbUrl, db, api, exported, probe, console,
                   constructed, probes>>

\* const db = new PouchDB(`https://...`, { skip_setup: false });
\* couchdbUrl.replace on undefined is a TypeError.
Construct ==
    /\ pc = "construct"
    /\ IF IsStr(couchdbUrl)
       THEN /\ db' = NewPouchDB(EndpointOf(couchdbUrl.val), PouchOptions)
            /\ constructed' = constructed + 1
            /\ pc' = "probe"
            /\ UNCHANGED thrown
       ELSE /\ pc' = "threw"
            /\ thrown' = "TypeError"
            /\ UNCHANGED <<db, constructed>>
    /\ UNCHANGED <<variant, env, couchdbUrl, api, exported, probe, console,
                   probes>>

\* db.info() is called; its promise settles later.
IssueProbe ==
    /\ pc = "probe"
    /\ probe' = "pending"
    /\ probes' = probes + 1
    /\ pc' = "export"
    /\ UNCHANGED <<variant, env, couchdbUrl, db, api, exported, console, thrown,
                   constructed>>

\* Variant: the export builds a second handle instead of naming db.
Export_Reconstructs ==
    /\ pc = "export"
    /\ exported' = NewPouchDB(db.name, db.opts)
    /\ constructed' = constructed + 1
    /\ pc' = "loaded"
    /\ UNCHANGED <<variant, env, couchdbUrl, db, api, probe, console, thrown,
                   probes>>

\* export default db;
Export ==
    /\ pc = "export"
    /\ exported' = db
    /\ pc' = "loaded"
    /\ UNCHANGED <<variant, env, couchdbUrl, db, api, probe, console, thrown,
                   constructed, probes>>

\* Variant: .catch chained before .then, so that the success handler also
\* runs once a rejection has been caught.
ProbeResolve_AfterCatch ==
    /\ pc = "loaded"
    /\ probe \in {"pending", "rejected"}
    /\ Len(console) < 2
    /\ probe' = "resolved"
    /\ console' = Append(console, [level |-> "log", msg |-> "DB info:"])
    /\ UNCHANGED <<variant, env, pc, couchdbUrl, db, api, exported, thrown,
                   constructed, probes>>

\* .then(info => console.log("DB info:", info)) : promise reactions run only
\* once the module's synchronous evaluation has finished.
ProbeResolve ==
    /\ pc = "loaded"
    /\ probe = "pending"
    /\ probe' = "resolved"
    /\ console' = Append(console, [level |-> "log", msg |-> "DB info:"])
    /\ UNCHANGED <<variant, env, pc, couchdbUrl, db, api, exported, thrown,
                   constructed, probes>>

\* Variant: no .catch, so a rejection is an unhandled rejection that ends
\* the process.
ProbeReject_Uncaught ==
    /\ pc = "loaded"
    /\ probe = "pending"
    /\ probe' = "rejected"
    /\ thrown' = "UnhandledRejection"
    /\ UNCHANGED <<variant, env, pc, couchdbUrl, db, api, exported, console,
                   constructed, probes>>

\* .catch(err => console.error("DB connection error:", err))
ProbeReject ==
    /\ pc = "loaded"
    /\ probe = "pending"
    /\ probe' = "rejected"
    /\ console' = Append(console, [level |-> "error", msg |-> "DB connection error:"])
    /\ UNCHANGED <<variant, env, pc, couchdbUrl, db, api, exported, thrown,
                   constructed, probes>>

\* const api = axios.create({ baseURL, timeout, headers });
ApiCreate ==
    /\ pc = "create"
    /\ api' = AxiosCreate(ApiConfig)
    /\ constructed' = constructed + 1
    /\ pc' = "exportApi"
    /\ UNCHANGED <<variant, env, couchdbUrl, db, exported, probe, console, thrown,
                   probes>>

\* export default api;
ApiExport ==
    /\ pc = "exportApi"
    /\ exported' = api
    /\ pc' = "loaded"
    /\ UNCHANGED <<variant, env, couchdbUrl, db, api, probe, console, thrown,
                   constructed, probes>>

\* The synchronous top-level evaluation of the module.
ModuleLoad ==
    \/ Parse
    \/ ReadConfig
    \/ CheckUrl
    \/ Construct
    \/ IssueProbe
    \/ Export
    \/ ApiCreate
    \/ ApiExport

Next ==
    \/ Parse
    \/ ReadConfig
    \/ CheckUrl
    \/ Construct
    \/ IssueProbe
    \/ Export
    \/ ProbeResolve
    \/ ProbeReject
    \/ ApiCreate
    \/ ApiExport

Spec == Init /\ [][Next]_vars

\* JavaScript runs a module's top-level code to completion; the probe's
\* promise has no timeout and may never settle, so it gets no fairness.
LiveSpec == Spec /\ WF_vars(ModuleLoad)

TypeOK ==
    /\ variant \in Variants
    /\ env \in EnvValues
    /\ pc \in {"parse", "read", "check", "construct", "probe", "export",
               "create", "exportApi", "loaded", "threw"}
    /\ probe \in {"none", "pending", "resolved", "rejected"}
    /\ thrown \in {"none", "Error", "SyntaxError", "TypeError"}
    /\ constructed \in 0..1
    /\ probes \in 0..1

-----------------------------------------------------------------------------
(* Vocabulary of the properties, stated without the operators above *)

StartsWith(s, p) == Len(p) <= Len(s) /\ SubSeq(s, 1, Len(p)) = p
EndsWith(s, p)   == Len(p) <= Len(s) /\ SubSeq(s, Len(s) - Len(p) + 1, Len(s)) = p

\* s without its last character when that character is "/", else s.
WithoutOneTrailingSlash(s) ==
    IF Len(s) > 0 /\ s[Len(s)] = "/" THEN SubSeq(s, 1, Len(s) - 1) ELSE s

SlashTransaction == <<"/", "t", "r", "a", "n", "s", "a", "c", "t", "i", "o", "n">>

\* What follows the scheme, or the whole string when it has none.
HostPart(s) ==
    IF StartsWith(s, HttpsScheme) THEN SubSeq(s, Len(HttpsScheme) + 1, Len(s))
    ELSE IF StartsWith(s, HttpScheme) THEN SubSeq(s, Len(HttpScheme) + 1, Len(s))
    ELSE s

\* A usable base URL: something other than "/" or "." starts the host.
ValidBaseUrl(s) == Len(HostPart(s)) > 0 /\ HostPart(s)[1] \notin {"/", "."}

HasHandle   == db.kind = "PouchDB"
MissingUrl  == Falsy(env)
ErrorEntry  == [level |-> "error", msg |-> "DB connection error:"]
LogEntry    == [level |-> "log", msg |-> "DB info:"]

-----------------------------------------------------------------------------
\* C1: for every valid non-empty base URL B, with or without a scheme, the
\* endpoint given to the PouchDB constructor is B without its trailing slash
\* followed by "/transaction"; "http://example.com/" gives
\* "http://example.com/transaction".
C1_EndpointIsBasePlusName ==
    (HasHandle /\ IsStr(couchdbUrl) /\ ValidBaseUrl(couchdbUrl.val))
        => db.name = WithoutOneTrailingSlash(couchdbUrl.val) \o SlashTransaction

\* C2: in the fail-fast file, with COUCHDB_URL unset or empty, the load ends
\* in the thrown Error, and no handle is constructed, probed or exported on
\* the way.
C2_MissingUrlFailsFast ==
    /\ []((variant = FailFast /\ MissingUrl) =>
            /\ db = NoHandle
            /\ exported = NoHandle
            /\ constructed = 0
            /\ probes = 0
            /\ probe = "none"
            /\ thrown \in {"none", "Error"})
    /\ ((variant = FailFast /\ MissingUrl) ~> (pc = "threw" /\ thrown = "Error"))

C2_Witness ==
    variant = FailFast /\ MissingUrl /\ pc = "threw" /\ thrown = "Error"

\* C3: in the files without the check, with COUCHDB_URL unset or empty, the
\* load raises no exception and what it exports is a database handle.
C3_MissingUrlStillLoads ==
    (variant \in {Plain, HardCoded} /\ MissingUrl) =>
        /\ thrown = "none"
        /\ (pc = "loaded" => exported.kind = "PouchDB")

\* C4: in the probing files the exported handle is the one constructed
\* before the probe whatever becomes of the probe (pending for ever,
\* resolved, rejected), and a rejection is logged, not thrown.
C4_HandleIndependentOfProbe ==
    (variant \in Probing /\ pc = "loaded") =>
        /\ probe \in {"pending", "resolved", "rejected"}
        /\ exported.kind = "PouchDB"
        /\ exported = db
        /\ thrown = "none"
        /\ (probe = "rejected" => console = <<ErrorEntry>>)

C4_Witness ==
    variant \in Probing /\ probe = "rejected" /\ exported.kind = "PouchDB"

\* C5: the API client is created with timeout 30000, the base URL literal
\* unchanged, the header Content-Type: application/json, and nothing else.
C5_ApiClientConfig ==
    api.kind = "axios" =>
        /\ DOMAIN api.config = {"baseURL", "timeout", "headers"}
        /\ api.config.timeout = 30000
        /\ api.config.baseURL =
             "https://backend-open-db.apps.itz-47ubpb.infra01-lb.dal14.techzone.ibm.com"
        /\ DOMAIN api.config.headers = {"Content-Type"}
        /\ api.config.headers["Content-Type"] = "application/json"

C5_Witness ==
    variant = ApiClient /\ pc = "loaded" /\ exported.kind = "axios" /\ exported = api

\* C6 (as claimed): every database handle is constructed with a flag that
\* says database setup is skipped, so "transaction" is not created when absent.
C6_SetupSkipped ==
    HasHandle => db.opts.skip_setup = TRUE

\* C6 (amended): every database handle that is constructed is given the one
\* option skip_setup with the value false: setup is not skipped.
C6_SetupNotSkipped ==
    HasHandle => (DOMAIN db.opts = {"skip_setup"} /\ db.opts.skip_setup = FALSE)

C6_Witness ==
    HasHandle /\ pc = "probe" /\ db.name = HttpsScheme \o <<"a">> \o SlashTransaction

\* C7: for every base URL with a host that ends in one or more "/", the
\* endpoint has exactly one "/" before "transaction": "//transaction" never
\* appears.
C7_NoDoubleSlash ==
    (/\ HasHandle
     /\ IsStr(couchdbUrl)
     /\ ValidBaseUrl(couchdbUrl.val)
     /\ EndsWith(couchdbUrl.val, <<"/">>))
        => /\ EndsWith(db.name, SlashTransaction)
           /\ ~EndsWith(db.name, <<"/">> \o SlashTransaction)

\* C8: the probe is issued once, after the handle exists; a resolved probe
\* leaves exactly one success log, a rejected probe exactly one error log,
\* and no settled probe leads to a second probe or a second construction.
C8_ProbeOnceLoggedOnly ==
    /\ probes <= 1
    /\ (probes = 1 => (HasHandle /\ constructed = 1))
    /\ ((variant \in Probing /\ pc = "loaded") => probes = 1)
    /\ (probe \in {"none", "pending"} => console = <<>>)
    /\ (probe = "resolved" => console = <<LogEntry>>)
    /\ (probe = "rejected" => console = <<ErrorEntry>>)
    /\ (probe \in {"resolved", "rejected"} =>
            (probes = 1 /\ constructed = 1 /\ exported = db /\ pc = "loaded"))

C8_Witness ==
    variant \in Probing /\ probe = "resolved" /\ console = <<LogEntry>> /\ probes = 1

\* C9: each module constructs its client at most once, and once a binding
\* (db, api, the default export) holds a handle no step changes it; what is
\* exported is the handle that was constructed.
C9_SingletonNeverReassigned ==
    /\ [](constructed <= 1)
    /\ [](exported.kind # "none" => (constructed = 1 /\ exported \in {db, api}))
    /\ [][/\ (db.kind # "none" => db' = db)
          /\ (api.kind # "none" => api' = api)
          /\ (exported.kind # "none" => exported' = exported)
          /\ constructed' >= constructed]_vars

C9_Witness ==
    pc = "loaded" /\ constructed = 1 /\ exported.kind = "PouchDB" /\ probe = "pending"

\* C10: in the probing files the endpoint is "https://", then the configured
\* value less at most one trailing "/", then "/transaction"; a configured
\* value that starts with "http://" gives an endpoint that starts with
\* "https://http://", as the hard-coded literal does.
C10_HttpsPrefixAlways ==
    (variant \in Probing /\ HasHandle) =>
        /\ IsStr(couchdbUrl)
        /\ db.name = HttpsScheme \o WithoutOneTrailingSlash(couchdbUrl.val)
                        \o SlashTransaction
        /\ (StartsWith(couchdbUrl.val, HttpScheme)
                => StartsWith(db.name, HttpsScheme \o HttpScheme))
        /\ (variant = HardCoded
                => StartsWith(db.name, HttpsScheme \o HttpScheme \o <<"c", "o", "u", "c", "h">>))

C10_Witness ==
    /\ variant = FailFast
    /\ HasHandle
    /\ couchdbUrl = Str(HttpScheme \o <<"a", "/", "/">>)
    /\ db.name = HttpsScheme \o HttpScheme \o <<"a", "/">> \o SlashTransaction

====
